---- MODULE Spec2Model ----
(***************************************************************************)
(* The semantic query layer of healthkit-mcp-playground                    *)
(* (health_query.py), its two callers (mcp_server/server.py, chat_app.py)  *)
(* and the ingestion loop (hk_to_parquet.py).                              *)
(*                                                                         *)
(* Python dicts are functions whose DOMAIN is the set of keys present.     *)
(* Python's None is the string NoneVal.  An optional argument is a         *)
(* sequence of length 0 (omitted) or 1 (given).  A compiled query is a     *)
(* record of the clauses of the f-string template of                      *)
(* build_health_query_sql.                                                 *)
(***************************************************************************)
EXTENDS Integers, Sequences, FiniteSets, TLC

VARIABLES
    \* ---- one compilation through one of the three entry paths
    cpc,          \* "ready" | "done"
    entry,        \* "none" | "direct" | "shim" | "chat"
    c_args,       \* what the caller of the entry path supplied
    c_spec,       \* the spec dict handed to build_health_query_sql
    c_metrics,    \* metrics_cfg
    c_dims,       \* dimensions_cfg
    c_out,        \* what build_health_query_sql returned or raised
    \* ---- concurrent run_spec calls
    metricsFile,  \* metrics.yaml on disk
    dimsFile,     \* dimensions.yaml on disk
    parquetOk,    \* whether healthkit_records.parquet can be read
    pc,           \* call -> position in run_spec
    intent,       \* call -> spec argument
    metrics_cfg,  \* call -> local metrics_cfg
    dimensions_cfg, \* call -> local dimensions_cfg
    sql,          \* call -> local sql
    con,          \* call -> local con (0: not bound)
    df,           \* call -> local df
    outcome,      \* call -> returned dict / raised exception
    engineOps,    \* call -> number of DuckDB calls made by the call
    conns,        \* the DuckDB connections created so far (a sequence)
    \* ---- records_to_parquet
    ipc,          \* position in records_to_parquet
    xml,          \* the elements iterparse yields, in order
    chunk_size,
    pos,          \* elements consumed so far
    rows,         \* the row buffer
    all_columns,  \* <<>> (None) or <<column set>>
    writer,       \* "None" | "open" | "closed"
    batches,      \* the tables written, in order
    peak          \* largest len(rows) seen so far

compileVars == <<cpc, entry, c_args, c_spec, c_metrics, c_dims, c_out>>
runVars == <<metricsFile, dimsFile, parquetOk, pc, intent, metrics_cfg,
             dimensions_cfg, sql, con, df, outcome, engineOps, conns>>
ingestVars == <<ipc, xml, chunk_size, pos, rows, all_columns, writer, batches, peak>>
vars == <<compileVars, runVars, ingestVars>>

-----------------------------------------------------------------------------
(* Python values *)

NoneVal == "<None>"
EmptyDict == [k \in {} |-> NoneVal]

\* dict.get(key, default)
Get(d, k, default) == IF k \in DOMAIN d THEN d[k] ELSE default

\* truthiness of a str-or-None value
Truthy(v) == v # NoneVal /\ v # ""

\* a or b, on str-or-None values
Or(a, b) == IF Truthy(a) THEN a ELSE b

\* str(v) of a str-or-None value
Str(v) == IF v = NoneVal THEN "None" ELSE v

\* str.lower() on the strings a catalog's unit can hold
Lower(s) ==
    CASE s = "NULL" -> "null"
      [] s = "Null" -> "null"
      [] s = "None" -> "none"
      [] OTHER -> s

\* str.upper() on the aggregation and cast names
Upper(s) ==
    CASE s = "avg" -> "AVG"
      [] s = "sum" -> "SUM"
      [] s = "min" -> "MIN"
      [] s = "max" -> "MAX"
      [] s = "count" -> "COUNT"
      [] s = "median" -> "MEDIAN"
      [] s = "double" -> "DOUBLE"
      [] s = "integer" -> "INTEGER"
      [] OTHER -> s

-----------------------------------------------------------------------------
(* The catalogs: metrics.yaml and dimensions.yaml as yaml.safe_load returns *)
(* them.                                                                    *)

MetricDefs ==
    [ heart_rate |->
        [hk_type |-> "HKQuantityTypeIdentifierHeartRate", unit |-> "count/min",
         default_agg |-> "avg", cast |-> "double"],
      step_count |->
        [hk_type |-> "HKQuantityTypeIdentifierStepCount", unit |-> "count",
         default_agg |-> "sum"],
      sleep_analysis_events |->
        [hk_type |-> "HKCategoryTypeIdentifierSleepAnalysis", unit |-> NoneVal,
         default_agg |-> "count"],
      body_mass |->
        [hk_type |-> "HKQuantityTypeIdentifierBodyMass"],
      vo2_max |->
        [hk_type |-> "HKQuantityTypeIdentifierVO2Max", unit |-> "NULL",
         default_agg |-> "max", cast |-> "integer"],
      flights_climbed |->
        [hk_type |-> "HKQuantityTypeIdentifierFlightsClimbed", unit |-> "",
         default_agg |-> ""] ]

FullMetricsDoc ==
    [ metrics |-> MetricDefs, table |-> "healthkit_records", value_field |-> "value",
      defaults |-> [aggregation |-> "avg", cast |-> "double", time_grain |-> "day"] ]

BareMetricsDoc == [ metrics |-> MetricDefs ]

OtherDefaultsDoc ==
    [ metrics |-> MetricDefs, table |-> "records", value_field |-> "val",
      defaults |-> [aggregation |-> "max", cast |-> "integer", time_grain |-> "month"] ]

NullDefaultsDoc ==
    [ metrics |-> MetricDefs, defaults |-> [aggregation |-> NoneVal, time_grain |-> ""] ]

NoMetricsKeyDoc ==
    [ table |-> "healthkit_records", value_field |-> "value",
      defaults |-> [aggregation |-> "avg", cast |-> "double", time_grain |-> "day"] ]

MetricsDocs ==
    {FullMetricsDoc, BareMetricsDoc, OtherDefaultsDoc, NullDefaultsDoc, NoMetricsKeyDoc}

DimsDoc ==
    [ dimensions |-> [ time |-> [ fields |->
        [ date |-> [expr |-> "CAST(startDate AS DATE)"],
          week |-> [expr |-> "date_trunc('week', CAST(startDate AS TIMESTAMP))"],
          month |-> [expr |-> "date_trunc('month', CAST(startDate AS TIMESTAMP))"],
          start_timestamp |-> [expr |-> "CAST(startDate AS TIMESTAMP)"] ] ] ] ]

AltDimsDoc ==
    [ dimensions |-> [ time |-> [ fields |->
        [ date |-> [expr |-> "date_trunc('day', CAST(startDate AS TIMESTAMP))"],
          week |-> [expr |-> "date_trunc('week', CAST(startDate AS TIMESTAMP))"],
          month |-> [expr |-> "date_trunc('month', CAST(startDate AS TIMESTAMP))"],
          start_timestamp |-> [expr |-> "startDate"] ] ] ] ]

NoDimensionsKeyDoc == [ version |-> "1" ]

DimsDocs == {DimsDoc, AltDimsDoc, NoDimensionsKeyDoc}

-----------------------------------------------------------------------------
(* health_query.py: the compiler *)

\* load_yaml: the document stored at the path
load_yaml(file) == file

Raised(e) == [exc |-> e, sql |-> EmptyDict]
Returned(q) == [exc |-> "None", sql |-> q]

\* get_time_group_expr: (expr, alias) of a time grain; KeyError when the
\* document has no "dimensions"
HasTimeDims(dcfg) == "dimensions" \in DOMAIN dcfg

get_time_group_expr_DayFallback(time_grain, dcfg) ==
    LET time_dims == dcfg["dimensions"]["time"]["fields"] IN
    IF time_grain = "month" THEN <<time_dims["month"]["expr"], "month">>
    ELSE IF time_grain = "week" THEN <<time_dims["week"]["expr"], "week">>
    ELSE <<time_dims["date"]["expr"], "date">>

get_time_group_expr(time_grain, dcfg) ==
    LET time_dims == dcfg["dimensions"]["time"]["fields"] IN
    IF time_grain = "day" THEN <<time_dims["date"]["expr"], "date">>
    ELSE IF time_grain = "month" THEN <<time_dims["month"]["expr"], "month">>
    ELSE IF time_grain = "week" THEN <<time_dims["week"]["expr"], "week">>
    ELSE <<time_dims["start_timestamp"]["expr"], "start_timestamp">>

\* metrics_cfg.get("metrics", {}).get(metric_name)
LookupMetricDropsCheck(mcfg, name) ==
    LET metrics == Get(mcfg, "metrics", EmptyDict) IN
    IF name \in DOMAIN metrics THEN <<metrics[name]>>
    ELSE <<[hk_type |-> name]>>

LookupMetric(mcfg, name) ==
    LET metrics == Get(mcfg, "metrics", EmptyDict) IN
    IF name \in DOMAIN metrics THEN <<metrics[name]>> ELSE <<>>

\* line 80: the aggregation chain
ResolveAggSkipsMetric(spec, metric_def, defaults) ==
    Or(Get(spec, "aggregation", NoneVal), Get(defaults, "aggregation", "avg"))

ResolveAgg(spec, metric_def, defaults) ==
    Or(Get(spec, "aggregation", NoneVal),
       Or(Get(metric_def, "default_agg", NoneVal), Get(defaults, "aggregation", "avg")))

\* line 81
ResolveCast(metric_def, defaults) ==
    Or(Get(metric_def, "cast", NoneVal), Get(defaults, "cast", "double"))

\* line 84
ResolveGrain(spec, defaults) ==
    Or(Get(spec, "time_grain", NoneVal), Get(defaults, "time_grain", "day"))

\* lines 91-93: the type predicate, then the unit predicate
TypePred(hk_type) == [col |-> "type", op |-> "=", val |-> hk_type]
UnitPred(unit) == [col |-> "unit", op |-> "=", val |-> unit]

MetricClausesUnitAlways(metric_def) ==
    <<TypePred(metric_def["hk_type"]), UnitPred(Str(Get(metric_def, "unit", NoneVal)))>>

MetricClauses(metric_def) ==
    LET unit == Get(metric_def, "unit", NoneVal) IN
    <<TypePred(metric_def["hk_type"])>> \o
    (IF unit # NoneVal /\ Lower(Str(unit)) # "null" /\ unit # ""
        THEN <<UnitPred(unit)>> ELSE <<>>)

\* lines 96-100: the date-range predicate
RangePred(start, end) == [col |-> "startDate", op |-> "BETWEEN", lo |-> start, hi |-> end]

RangeClausesOneSided(spec) ==
    LET time_range == Get(spec, "time_range", EmptyDict) IN
    IF DOMAIN time_range # {}
       /\ (Truthy(Get(time_range, "start", NoneVal)) \/ Truthy(Get(time_range, "end", NoneVal)))
    THEN <<RangePred(Str(Get(time_range, "start", NoneVal)),
                     Str(Get(time_range, "end", NoneVal)))>>
    ELSE <<>>

RangeClauses(spec) ==
    LET time_range == Get(spec, "time_range", EmptyDict) IN
    IF DOMAIN time_range # {}
       /\ Truthy(Get(time_range, "start", NoneVal))
       /\ Truthy(Get(time_range, "end", NoneVal))
    THEN <<RangePred(time_range["start"], time_range["end"])>>
    ELSE <<>>

DefaultLimit == 100

\* line 108
ResolveLimitIgnoresSpec(spec) == DefaultLimit

ResolveLimit(spec) == Get(spec, "limit", DefaultLimit)

\* lines 110-119: the query template
Assemble(group_expr, group_alias, agg, cast_type, value_field, metric_name, table, where_clauses, limit) ==
    [ select |-> << [expr |-> [kind |-> "group", text |-> group_expr],
                     alias |-> group_alias],
                    [expr |-> [kind |-> "agg", fn |-> Upper(agg), arg |-> value_field,
                               cast |-> Upper(cast_type)],
                     alias |-> metric_name] >>,
      from |-> table,
      where |-> where_clauses,
      group_by |-> <<group_expr>>,
      order_by |-> <<group_expr>>,
      limit |-> limit ]

build_health_query_sql_DimsFirst(spec, mcfg, dcfg) ==
    LET metric_name == spec["metric"]
        found == LookupMetric(mcfg, metric_name)
    IN
    IF ~HasTimeDims(dcfg) THEN Raised("KeyError: dimensions")
    ELSE IF found = <<>> THEN Raised("ValueError: Unknown metric")
    ELSE
      LET metric_def == found[1]
          defaults == Get(mcfg, "defaults", EmptyDict)
          agg == ResolveAgg(spec, metric_def, defaults)
          cast_type == ResolveCast(metric_def, defaults)
          group == get_time_group_expr(ResolveGrain(spec, defaults), dcfg)
      IN
      IF cast_type = NoneVal \/ agg = NoneVal THEN Raised("AttributeError: upper")
      ELSE Returned(Assemble(group[1], group[2], agg, cast_type,
                             Get(mcfg, "value_field", "value"), metric_name,
                             Get(mcfg, "table", "healthkit_records"),
                             MetricClauses(metric_def) \o RangeClauses(spec),
                             ResolveLimit(spec)))

build_health_query_sql(spec, mcfg, dcfg) ==
    LET metric_name == spec["metric"]
        found == LookupMetric(mcfg, metric_name)
    IN
    IF found = <<>> THEN Raised("ValueError: Unknown metric")
    ELSE
      LET metric_def == found[1]
          table == Get(mcfg, "table", "healthkit_records")
          value_field == Get(mcfg, "value_field", "value")
          defaults == Get(mcfg, "defaults", EmptyDict)
          agg == ResolveAgg(spec, metric_def, defaults)
          cast_type == ResolveCast(metric_def, defaults)
          time_grain == ResolveGrain(spec, defaults)
      IN
      IF ~HasTimeDims(dcfg) THEN Raised("KeyError: dimensions")
      ELSE
        LET group == get_time_group_expr(time_grain, dcfg)
            where_clauses == MetricClauses(metric_def) \o RangeClauses(spec)
        IN
        IF cast_type = NoneVal \/ agg = NoneVal THEN Raised("AttributeError: upper")
        ELSE Returned(Assemble(group[1], group[2], agg, cast_type, value_field,
                               metric_name, table, where_clauses, ResolveLimit(spec)))

-----------------------------------------------------------------------------
(* DuckDB and the record store, as run_spec uses them *)

HR == "HKQuantityTypeIdentifierHeartRate"
STEPS == "HKQuantityTypeIdentifierStepCount"
SLEEP == "HKCategoryTypeIdentifierSleepAnalysis"

\* healthkit_records.parquet: every column is text
RecordStore ==
    << [type |-> HR, unit |-> "count/min", value |-> "60", startDate |-> "2021-01-04 08:00:00"],
       [type |-> HR, unit |-> "count/min", value |-> "80", startDate |-> "2021-01-04 20:00:00"],
       [type |-> HR, unit |-> "count/min", value |-> "70", startDate |-> "2021-01-05 09:30:00"],
       [type |-> HR, unit |-> "count/min", value |-> "90", startDate |-> "2021-02-01 07:15:00"],
       [type |-> STEPS, unit |-> "count", value |-> "100", startDate |-> "2021-01-04 08:00:00"],
       [type |-> STEPS, unit |-> "count", value |-> "250", startDate |-> "2021-01-05 09:30:00"],
       [type |-> SLEEP, unit |-> NoneVal, value |-> "HKCategoryValueSleepAnalysisAsleep",
        startDate |-> "2021-01-04 20:00:00"] >>

\* CAST(value AS DOUBLE / INTEGER): <<n>>, or <<>> for a conversion error
CastNum(text) ==
    CASE text = "60" -> <<60>>
      [] text = "70" -> <<70>>
      [] text = "80" -> <<80>>
      [] text = "90" -> <<90>>
      [] text = "100" -> <<100>>
      [] text = "250" -> <<250>>
      [] OTHER -> <<>>

\* the order of the texts DuckDB compares and sorts
Rank(text) ==
    CASE text = "2021-01-01" -> 1
      [] text = "2021-01-04" -> 2
      [] text = "2021-01-04 08:00:00" -> 3
      [] text = "2021-01-04 20:00:00" -> 4
      [] text = "2021-01-05" -> 5
      [] text = "2021-01-05 09:30:00" -> 6
      [] text = "2021-01-31" -> 7
      [] text = "2021-02-01" -> 8
      [] text = "2021-02-01 07:15:00" -> 9
      [] OTHER -> 0

DayOf(ts) ==
    CASE ts = "2021-01-04 08:00:00" -> "2021-01-04"
      [] ts = "2021-01-04 20:00:00" -> "2021-01-04"
      [] ts = "2021-01-05 09:30:00" -> "2021-01-05"
      [] OTHER -> "2021-02-01"

WeekOf(ts) ==
    CASE ts = "2021-02-01 07:15:00" -> "2021-02-01"
      [] OTHER -> "2021-01-04"

MonthOf(ts) ==
    CASE ts = "2021-02-01 07:15:00" -> "2021-02-01"
      [] OTHER -> "2021-01-01"

\* the value of a grouping expression on a record: its SQL type and its text
EvalGroup(expr, r) ==
    CASE expr = "CAST(startDate AS DATE)" -> [kind |-> "date", text |-> DayOf(r.startDate)]
      [] expr = "date_trunc('day', CAST(startDate AS TIMESTAMP))" ->
            [kind |-> "timestamp", text |-> DayOf(r.startDate)]
      [] expr = "date_trunc('week', CAST(startDate AS TIMESTAMP))" ->
            [kind |-> "timestamp", text |-> WeekOf(r.startDate)]
      [] expr = "date_trunc('month', CAST(startDate AS TIMESTAMP))" ->
            [kind |-> "timestamp", text |-> MonthOf(r.startDate)]
      [] expr = "CAST(startDate AS TIMESTAMP)" -> [kind |-> "timestamp", text |-> r.startDate]
      [] OTHER -> [kind |-> "varchar", text |-> r.startDate]

Holds(pred, r) ==
    CASE pred.col = "type" -> r.type = pred.val
      [] pred.col = "unit" -> r.unit # NoneVal /\ r.unit = pred.val
      [] OTHER -> Rank(pred.lo) <= Rank(r.startDate) /\ Rank(r.startDate) <= Rank(pred.hi)

Matching(q, store) ==
    {i \in 1..Len(store) : \A j \in 1..Len(q.where) : Holds(q.where[j], store[i])}

RECURSIVE SumOver(_, _)
SumOver(is, store) ==
    IF is = {} THEN 0
    ELSE LET i == CHOOSE x \in is : TRUE
         IN CastNum(store[i].value)[1] + SumOver(is \ {i}, store)

Numbers(is, store) == {CastNum(store[i].value)[1] : i \in is}

Aggregate(fn, is, store) ==
    CASE fn = "SUM" -> [num |-> SumOver(is, store), den |-> 1]
      [] fn = "COUNT" -> [num |-> Cardinality(is), den |-> 1]
      [] fn = "MIN" -> [num |-> CHOOSE n \in Numbers(is, store) :
                                    \A m \in Numbers(is, store) : n <= m, den |-> 1]
      [] fn = "MAX" -> [num |-> CHOOSE n \in Numbers(is, store) :
                                    \A m \in Numbers(is, store) : n >= m, den |-> 1]
      [] OTHER -> [num |-> SumOver(is, store), den |-> Cardinality(is)]

RECURSIVE SortKeys(_)
SortKeys(keys) ==
    IF keys = {} THEN <<>>
    ELSE LET k == CHOOSE x \in keys : \A y \in keys : Rank(x.text) <= Rank(y.text)
         IN <<k>> \o SortKeys(keys \ {k})

Head_(seq, n) == IF Len(seq) <= n THEN seq ELSE SubSeq(seq, 1, n)

\* the table of a query over the store: one row per group, ordered by the
\* group, the first `limit` of them; or the engine's error
RunQuery(q, views, store) ==
    IF q.from \notin views THEN [err |-> "CatalogException", table |-> <<>>]
    ELSE IF q.select[2].expr.fn \notin {"AVG", "SUM", "MIN", "MAX", "COUNT"}
         THEN [err |-> "CatalogException", table |-> <<>>]
    ELSE IF q.limit < 0 THEN [err |-> "BinderException", table |-> <<>>]
    ELSE
      LET is == Matching(q, store) IN
      IF \E i \in is : CastNum(store[i].value) = <<>>
      THEN [err |-> "ConversionException", table |-> <<>>]
      ELSE
        LET e == q.group_by[1]
            keys == SortKeys({EvalGroup(e, store[i]) : i \in is})
            row(k) == [cols |-> <<q.select[1].alias, q.select[2].alias>>,
                       key |-> k,
                       value |-> Aggregate(q.select[2].expr.fn,
                                           {i \in is : EvalGroup(e, store[i]) = k}, store)]
        IN [err |-> "None",
            table |-> Head_([n \in 1..Len(keys) |-> row(keys[n])], q.limit)]

\* pandas Timestamp.isoformat() of a DATE or TIMESTAMP value
Isoformat(text) ==
    CASE text = "2021-01-01" -> "2021-01-01T00:00:00"
      [] text = "2021-01-04" -> "2021-01-04T00:00:00"
      [] text = "2021-01-05" -> "2021-01-05T00:00:00"
      [] text = "2021-02-01" -> "2021-02-01T00:00:00"
      [] text = "2021-01-04 08:00:00" -> "2021-01-04T08:00:00"
      [] text = "2021-01-04 20:00:00" -> "2021-01-04T20:00:00"
      [] text = "2021-01-05 09:30:00" -> "2021-01-05T09:30:00"
      [] OTHER -> "2021-02-01T07:15:00"

\* _json_safe_rows: temporal values become ISO 8601 text, the rest is kept
json_safe_rows(table) ==
    [n \in 1..Len(table) |->
        [table[n] EXCEPT !.key =
            IF @.kind \in {"date", "timestamp"}
            THEN [kind |-> "str", text |-> Isoformat(@.text)]
            ELSE [kind |-> "str", text |-> @.text]]]

-----------------------------------------------------------------------------
(* The two callers of handle_healthkit_query *)

ShimDefaultLimit == 100
ChatDefaultLimit == 30

\* the time_range both callers add: only when start and end are both truthy
WithRange(base, start, end) ==
    IF Truthy(start) /\ Truthy(end)
    THEN [k \in DOMAIN base \cup {"time_range"} |->
            IF k = "time_range" THEN [start |-> start, end |-> end] ELSE base[k]]
    ELSE base

\* mcp_server/server.py healthkit_query: args holds the keyword arguments given
ShimSpecNoAggDefault(args) ==
    WithRange([k \in {"metric", "time_grain", "limit"} \cup ({"aggregation"} \cap DOMAIN args) |->
                 CASE k = "metric" -> args["metric"]
                   [] k = "aggregation" -> args["aggregation"]
                   [] k = "time_grain" -> Get(args, "time_grain", "day")
                   [] OTHER -> Get(args, "limit", ShimDefaultLimit)],
              Get(args, "start", NoneVal), Get(args, "end", NoneVal))

ShimSpec(args) ==
    WithRange([ metric |-> args["metric"],
                aggregation |-> Get(args, "aggregation", "avg"),
                time_grain |-> Get(args, "time_grain", "day"),
                limit |-> Get(args, "limit", ShimDefaultLimit) ],
              Get(args, "start", NoneVal), Get(args, "end", NoneVal))

\* chat_app.py call_model_with_tools: tool_args is the JSON object of the tool call
ChatSpec(tool_args) ==
    WithRange([ metric |-> Get(tool_args, "metric", NoneVal),
                aggregation |-> Get(tool_args, "aggregation", "avg"),
                time_grain |-> Get(tool_args, "time_grain", "day"),
                limit |-> Get(tool_args, "limit", ChatDefaultLimit) ],
              Get(tool_args, "start", NoneVal), Get(tool_args, "end", NoneVal))

-----------------------------------------------------------------------------
(* Inputs of the compilation specification *)

MetricNames == DOMAIN MetricDefs \cup {"nonexistent_metric"}
AggChoices == {<<>>, <<"">>, <<"sum">>, <<"count">>, <<"median">>}
GrainChoices == {<<>>, <<"">>, <<"day">>, <<"week">>, <<"month">>, <<"hour">>}
LimitChoices == {<<>>, <<1>>, <<12>>}
DateChoices == {<<>>, <<"">>, <<"2021-01-05">>, <<"2021-01-31">>}

\* a dict holding key k exactly when opt[k] is a one-element sequence
DictOf(opt) ==
    [k \in {j \in DOMAIN opt : opt[j] # <<>>} |-> opt[k][1]]

RangeChoices ==
    {<<>>} \cup {<<DictOf([start |-> s, end |-> e])>> : s \in DateChoices, e \in DateChoices}

Intents ==
    { DictOf([metric |-> <<m>>, aggregation |-> a, time_grain |-> g, limit |-> l,
              time_range |-> r]) :
        m \in MetricNames, a \in AggChoices, g \in GrainChoices, l \in LimitChoices,
        r \in RangeChoices }

\* keyword arguments of the shim; tool arguments of the chat front-end
ShimArgs ==
    { DictOf([metric |-> <<m>>, aggregation |-> a, time_grain |-> g, limit |-> l,
              start |-> s, end |-> e]) :
        m \in {"heart_rate", "step_count", "nonexistent_metric"},
        a \in {<<>>, <<"">>, <<"sum">>}, g \in {<<>>, <<"week">>, <<"hour">>},
        l \in LimitChoices, s \in DateChoices, e \in DateChoices }

ChatArgs ==
    { DictOf([metric |-> m, aggregation |-> a, time_grain |-> g, limit |-> l,
              start |-> s, end |-> e]) :
        m \in {<<>>, <<"heart_rate">>, <<"step_count">>, <<"vo2_max">>},
        a \in {<<>>, <<"">>, <<"sum">>}, g \in {<<>>, <<"week">>, <<"hour">>},
        l \in LimitChoices, s \in DateChoices, e \in DateChoices }

Pending == [exc |-> "pending", sql |-> EmptyDict]

CompileInit ==
    /\ cpc = "ready"
    /\ entry = "none"
    /\ c_args = EmptyDict
    /\ c_spec = EmptyDict
    /\ c_metrics \in MetricsDocs
    /\ c_dims \in DimsDocs
    /\ c_out = Pending

Compile(path, args, spec) ==
    /\ cpc' = "done"
    /\ entry' = path
    /\ c_args' = args
    /\ c_spec' = spec
    /\ c_out' = build_health_query_sql(spec, c_metrics, c_dims)
    /\ UNCHANGED <<c_metrics, c_dims>>

\* build_health_query_sql called with an intent as it is
DirectCall == cpc = "ready" /\ \E i \in Intents : Compile("direct", i, i)

\* healthkit_query of the MCP server, down to the compiler
ShimCall == cpc = "ready" /\ \E a \in ShimArgs : Compile("shim", a, ShimSpec(a))

\* one tool call of call_model_with_tools, down to the compiler
ChatCall == cpc = "ready" /\ \E a \in ChatArgs : Compile("chat", a, ChatSpec(a))

\* no run_spec call and no ingestion in progress
RunIdle ==
    /\ metricsFile = FullMetricsDoc
    /\ dimsFile = DimsDoc
    /\ parquetOk = TRUE
    /\ pc = <<>> /\ intent = <<>> /\ metrics_cfg = <<>> /\ dimensions_cfg = <<>>
    /\ sql = <<>> /\ con = <<>> /\ df = <<>> /\ outcome = <<>> /\ engineOps = <<>>
    /\ conns = <<>>

IngestIdle ==
    /\ ipc = "off"
    /\ xml = <<>>
    /\ chunk_size = 1
    /\ pos = 0
    /\ rows = <<>>
    /\ all_columns = <<>>
    /\ writer = "None"
    /\ batches = <<>>
    /\ peak = 0

CompileNext ==
    \/ DirectCall /\ UNCHANGED <<runVars, ingestVars>>
    \/ ShimCall /\ UNCHANGED <<runVars, ingestVars>>
    \/ ChatCall /\ UNCHANGED <<runVars, ingestVars>>

InitCompile == CompileInit /\ RunIdle /\ IngestIdle

SpecCompile == InitCompile /\ [][CompileNext]_vars

-----------------------------------------------------------------------------
(* health_query.py run_spec, one step per statement, for several calls *)

MaxCalls == 2
Calls == 1..MaxCalls

RunIntents ==
    { [metric |-> "heart_rate"],
      [metric |-> "step_count", aggregation |-> "max", time_grain |-> "week", limit |-> 1,
       time_range |-> [start |-> "2021-01-01", end |-> "2021-01-31"]],
      [metric |-> "sleep_analysis_events"],
      [metric |-> "nonexistent_metric", aggregation |-> "sum"] }

NoOutcome == [exc |-> "pending", sql |-> EmptyDict, rows |-> <<>>]
RaisedBy(e) == [exc |-> e, sql |-> EmptyDict, rows |-> <<>>]
NoTable == [err |-> "None", table |-> <<>>]

RunInit ==
    /\ metricsFile \in {FullMetricsDoc, NoMetricsKeyDoc}
    /\ dimsFile \in {DimsDoc, NoDimensionsKeyDoc}
    /\ parquetOk \in BOOLEAN
    /\ pc = [c \in Calls |-> "idle"]
    /\ intent = [c \in Calls |-> EmptyDict]
    /\ metrics_cfg = [c \in Calls |-> EmptyDict]
    /\ dimensions_cfg = [c \in Calls |-> EmptyDict]
    /\ sql = [c \in Calls |-> EmptyDict]
    /\ con = [c \in Calls |-> 0]
    /\ df = [c \in Calls |-> NoTable]
    /\ outcome = [c \in Calls |-> NoOutcome]
    /\ engineOps = [c \in Calls |-> 0]
    /\ conns = <<>>

envVars == <<metricsFile, dimsFile, parquetOk>>

\* handle_healthkit_query(args): run_spec(spec, verbose=False) is entered
Call(c) ==
    /\ pc[c] = "idle"
    /\ \E i \in RunIntents : intent' = [intent EXCEPT ![c] = i]
    /\ pc' = [pc EXCEPT ![c] = "load_metrics"]
    /\ UNCHANGED <<envVars, metrics_cfg, dimensions_cfg, sql, con, df, outcome,
                   engineOps, conns>>

\* line 135
LoadMetrics(c) ==
    /\ pc[c] = "load_metrics"
    /\ metrics_cfg' = [metrics_cfg EXCEPT ![c] = load_yaml(metricsFile)]
    /\ pc' = [pc EXCEPT ![c] = "load_dimensions"]
    /\ UNCHANGED <<envVars, intent, dimensions_cfg, sql, con, df, outcome, engineOps, conns>>

\* line 136
LoadDimensions(c) ==
    /\ pc[c] = "load_dimensions"
    /\ dimensions_cfg' = [dimensions_cfg EXCEPT ![c] = load_yaml(dimsFile)]
    /\ pc' = [pc EXCEPT ![c] = "build"]
    /\ UNCHANGED <<envVars, intent, metrics_cfg, sql, con, df, outcome, engineOps, conns>>

\* line 138
Build(c) ==
    /\ pc[c] = "build"
    /\ LET b == build_health_query_sql(intent[c], metrics_cfg[c], dimensions_cfg[c]) IN
       IF b.exc = "None"
       THEN /\ sql' = [sql EXCEPT ![c] = b.sql]
            /\ pc' = [pc EXCEPT ![c] = "connect"]
            /\ UNCHANGED outcome
       ELSE /\ outcome' = [outcome EXCEPT ![c] = RaisedBy(b.exc)]
            /\ pc' = [pc EXCEPT ![c] = "raised"]
            /\ UNCHANGED sql
    /\ UNCHANGED <<envVars, intent, metrics_cfg, dimensions_cfg, con, df, engineOps, conns>>

\* duckdb.connect(database=":memory:"): a new connection to a new, empty database
SharedHandle(cs) == 1

NewHandle(cs) == Len(cs) + 1

NewConnection == [open |-> TRUE, views |-> {}, users |-> {}]

\* line 145
Connect(c) ==
    /\ pc[c] = "connect"
    /\ LET h == NewHandle(conns) IN
       /\ con' = [con EXCEPT ![c] = h]
       /\ conns' = IF h > Len(conns) THEN Append(conns, NewConnection) ELSE conns
    /\ engineOps' = [engineOps EXCEPT ![c] = @ + 1]
    /\ pc' = [pc EXCEPT ![c] = "create_view"]
    /\ UNCHANGED <<envVars, intent, metrics_cfg, dimensions_cfg, sql, df, outcome>>

\* lines 148-151: CREATE VIEW healthkit_records AS SELECT * FROM read_parquet(...)
CreateView(c) ==
    /\ pc[c] = "create_view"
    /\ engineOps' = [engineOps EXCEPT ![c] = @ + 1]
    /\ LET k == conns[con[c]]
           err == IF ~k.open THEN "ConnectionException"
                  ELSE IF "healthkit_records" \in k.views THEN "CatalogException"
                  ELSE IF ~parquetOk THEN "IOException"
                  ELSE "None"
       IN IF err = "None"
          THEN /\ conns' = [conns EXCEPT ![con[c]] =
                              [@ EXCEPT !.views = @ \cup {"healthkit_records"},
                                        !.users = @ \cup {c}]]
               /\ pc' = [pc EXCEPT ![c] = "execute"]
               /\ UNCHANGED outcome
          ELSE /\ conns' = [conns EXCEPT ![con[c]] = [@ EXCEPT !.users = @ \cup {c}]]
               /\ outcome' = [outcome EXCEPT ![c] = RaisedBy(err)]
               /\ pc' = [pc EXCEPT ![c] = "raised"]
    /\ UNCHANGED <<envVars, intent, metrics_cfg, dimensions_cfg, sql, con, df>>

\* line 154: df = con.execute(sql).df()
Execute(c) ==
    /\ pc[c] = "execute"
    /\ engineOps' = [engineOps EXCEPT ![c] = @ + 1]
    /\ conns' = [conns EXCEPT ![con[c]] = [@ EXCEPT !.users = @ \cup {c}]]
    /\ LET k == conns[con[c]]
           r == IF ~k.open THEN [err |-> "ConnectionException", table |-> <<>>]
                ELSE RunQuery(sql[c], k.views, RecordStore)
       IN IF r.err = "None"
          THEN /\ df' = [df EXCEPT ![c] = r]
               /\ pc' = [pc EXCEPT ![c] = "close"]
               /\ UNCHANGED outcome
          ELSE /\ outcome' = [outcome EXCEPT ![c] = RaisedBy(r.err)]
               /\ pc' = [pc EXCEPT ![c] = "raised"]
               /\ UNCHANGED df
    /\ UNCHANGED <<envVars, intent, metrics_cfg, dimensions_cfg, sql, con>>

\* line 155: con.close()
Close(c) ==
    /\ pc[c] = "close"
    /\ engineOps' = [engineOps EXCEPT ![c] = @ + 1]
    /\ conns' = [conns EXCEPT ![con[c]] = [@ EXCEPT !.open = FALSE, !.users = @ \cup {c}]]
    /\ pc' = [pc EXCEPT ![c] = "return"]
    /\ UNCHANGED <<envVars, intent, metrics_cfg, dimensions_cfg, sql, con, df, outcome>>

\* lines 162-166
Return(c) ==
    /\ pc[c] = "return"
    /\ outcome' = [outcome EXCEPT ![c] =
                      [exc |-> "None", sql |-> sql[c], rows |-> json_safe_rows(df[c].table)]]
    /\ pc' = [pc EXCEPT ![c] = "returned"]
    /\ UNCHANGED <<envVars, intent, metrics_cfg, dimensions_cfg, sql, con, df,
                   engineOps, conns>>

CompileIdle ==
    /\ cpc = "off"
    /\ entry = "none"
    /\ c_args = EmptyDict
    /\ c_spec = EmptyDict
    /\ c_metrics = EmptyDict
    /\ c_dims = EmptyDict
    /\ c_out = Pending

Init == RunInit /\ CompileIdle /\ IngestIdle

Next ==
    \E c \in Calls :
        \/ Call(c) /\ UNCHANGED <<compileVars, ingestVars>>
        \/ LoadMetrics(c) /\ UNCHANGED <<compileVars, ingestVars>>
        \/ LoadDimensions(c) /\ UNCHANGED <<compileVars, ingestVars>>
        \/ Build(c) /\ UNCHANGED <<compileVars, ingestVars>>
        \/ Connect(c) /\ UNCHANGED <<compileVars, ingestVars>>
        \/ CreateView(c) /\ UNCHANGED <<compileVars, ingestVars>>
        \/ Execute(c) /\ UNCHANGED <<compileVars, ingestVars>>
        \/ Close(c) /\ UNCHANGED <<compileVars, ingestVars>>
        \/ Return(c) /\ UNCHANGED <<compileVars, ingestVars>>

Spec == Init /\ [][Next]_vars

-----------------------------------------------------------------------------
(* hk_to_parquet.py records_to_parquet, one step per statement group *)

MaxElems == 4
MaxChunk == 3

\* the elements iterparse can yield: two shapes of <Record>, and another tag
Elements ==
    { [tag |-> "Record", attrib |-> [type |-> HR, value |-> "60"]],
      [tag |-> "Record", attrib |-> [type |-> STEPS, unit |-> "count", value |-> "100"]],
      [tag |-> "MetadataEntry", attrib |-> [key |-> "HKMetadataKeyHeartRateMotionContext"]] }

RECURSIVE SeqsUpTo(_)
SeqsUpTo(n) ==
    IF n = 0 THEN {<<>>}
    ELSE LET shorter == SeqsUpTo(n - 1)
         IN shorter \cup {Append(q, e) : q \in {x \in shorter : Len(x) = n - 1}, e \in Elements}

IngestInit ==
    /\ ipc = "loop"
    /\ xml \in SeqsUpTo(MaxElems)
    /\ chunk_size \in 1..MaxChunk
    /\ pos = 0
    /\ rows = <<>>
    /\ all_columns = <<>>
    /\ writer = "None"
    /\ batches = <<>>
    /\ peak = 0

\* sorted(df.columns): the union of the rows' keys, in alphabetical order
ColumnRank(col) ==
    CASE col = "type" -> 1
      [] col = "unit" -> 2
      [] OTHER -> 3

RECURSIVE SortColumns(_)
SortColumns(cols) ==
    IF cols = {} THEN <<>>
    ELSE LET c == CHOOSE x \in cols : \A y \in cols : ColumnRank(x) <= ColumnRank(y)
         IN <<c>> \o SortColumns(cols \ {c})

FrameColumns(rs) == UNION {DOMAIN rs[n].attrib : n \in 1..Len(rs)}

\* lines 42-43 / 67-68: the column set is frozen by the first chunk
Frozen(cols, rs) == IF cols = <<>> THEN <<SortColumns(FrameColumns(rs))>> ELSE cols

\* lines 39-52 / 65-75: DataFrame, reindex, astype("string"), Table.from_pandas
ToTable(rs, cols) ==
    [n \in 1..Len(rs) |->
        [idx |-> rs[n].idx,
         cells |-> [i \in 1..Len(cols) |-> Get(rs[n].attrib, cols[i], NoneVal)]]]

\* line 38
ShouldFlushLate(rs, size) == Len(rs) > size

ShouldFlush(rs, size) == Len(rs) >= size

WriteChunk ==
    /\ all_columns' = Frozen(all_columns, rows)
    /\ batches' = Append(batches, ToTable(rows, Frozen(all_columns, rows)[1]))
    /\ writer' = "open"

\* lines 34-36: the next element; a <Record> is appended to rows
NextElement ==
    /\ ipc = "loop"
    /\ pos < Len(xml)
    /\ pos' = pos + 1
    /\ IF xml[pos + 1].tag = "Record"
       THEN /\ rows' = Append(rows, [idx |-> pos + 1, attrib |-> xml[pos + 1].attrib])
            /\ peak' = IF Len(rows) + 1 > peak THEN Len(rows) + 1 ELSE peak
            /\ ipc' = "check"
       ELSE UNCHANGED <<rows, peak, ipc>>
    /\ UNCHANGED <<xml, chunk_size, all_columns, writer, batches>>

\* lines 38-58: a full buffer is written and cleared
FlushChunk ==
    /\ ipc = "check"
    /\ ShouldFlush(rows, chunk_size)
    /\ WriteChunk
    /\ rows' = <<>>
    /\ ipc' = "loop"
    /\ UNCHANGED <<xml, chunk_size, pos, peak>>

\* line 38 false, line 61
KeepBuffering ==
    /\ ipc = "check"
    /\ ~ShouldFlush(rows, chunk_size)
    /\ ipc' = "loop"
    /\ UNCHANGED <<xml, chunk_size, pos, rows, all_columns, writer, batches, peak>>

\* the for loop ends
EndOfInput ==
    /\ ipc = "loop"
    /\ pos = Len(xml)
    /\ ipc' = "tail"
    /\ UNCHANGED <<xml, chunk_size, pos, rows, all_columns, writer, batches, peak>>

\* lines 64-80: the remaining rows are written
WriteRemaining ==
    /\ ipc = "tail"
    /\ rows # <<>>
    /\ WriteChunk
    /\ ipc' = "close"
    /\ UNCHANGED <<xml, chunk_size, pos, rows, peak>>

\* line 64 false
NothingRemaining ==
    /\ ipc = "tail"
    /\ rows = <<>>
    /\ ipc' = "close"
    /\ UNCHANGED <<xml, chunk_size, pos, rows, all_columns, writer, batches, peak>>

\* lines 82-83
CloseWriter ==
    /\ ipc = "close"
    /\ writer' = IF writer # "None" THEN "closed" ELSE writer
    /\ ipc' = "done"
    /\ UNCHANGED <<xml, chunk_size, pos, rows, all_columns, batches, peak>>

IngestNext ==
    \/ NextElement /\ UNCHANGED <<compileVars, runVars>>
    \/ FlushChunk /\ UNCHANGED <<compileVars, runVars>>
    \/ KeepBuffering /\ UNCHANGED <<compileVars, runVars>>
    \/ EndOfInput /\ UNCHANGED <<compileVars, runVars>>
    \/ WriteRemaining /\ UNCHANGED <<compileVars, runVars>>
    \/ NothingRemaining /\ UNCHANGED <<compileVars, runVars>>
    \/ CloseWriter /\ UNCHANGED <<compileVars, runVars>>

InitIngest == IngestInit /\ CompileIdle /\ RunIdle

SpecIngest == InitIngest /\ [][IngestNext]_vars

-----------------------------------------------------------------------------
(* Properties of the compiler *)

Compiled == cpc = "done" /\ c_out.exc = "None"

\* a value is supplied when its key is present and it is neither None nor empty
Supplied(d, k) == k \in DOMAIN d /\ d[k] # NoneVal /\ d[k] # ""

KnownMetric == c_spec["metric"] \in DOMAIN Get(c_metrics, "metrics", EmptyDict)
TheMetric == c_metrics["metrics"][c_spec["metric"]]
Fields == c_dims["dimensions"]["time"]["fields"]

DatePreds(q) == {i \in 1..Len(q.where) : q.where[i].col = "startDate"}

\* the range the caller asked for: time_range of an intent, start/end of the
\* shim's and the chat front-end's arguments
CallerRange ==
    IF entry = "direct" THEN Get(c_args, "time_range", EmptyDict) ELSE c_args

BothBounds == Supplied(CallerRange, "start") /\ Supplied(CallerRange, "end")

\* C3: the query has the inclusive BETWEEN start AND end predicate on
\* startDate exactly when the caller supplied both bounds; with one bound, no
\* bound or no time_range it has no predicate on startDate at all.
C3_RangeIffBoth ==
    Compiled =>
        LET q == c_out.sql IN
        IF BothBounds
        THEN /\ Cardinality(DatePreds(q)) = 1
             /\ \A i \in DatePreds(q) :
                    /\ q.where[i].op = "BETWEEN"
                    /\ q.where[i].lo = CallerRange["start"]
                    /\ q.where[i].hi = CallerRange["end"]
        ELSE DatePreds(q) = {}

C3_Witness ==
    /\ Compiled
    /\ Supplied(CallerRange, "start") /\ ~Supplied(CallerRange, "end")
    /\ DatePreds(c_out.sql) = {}

\* C4: the aggregation of the query is the intent's when supplied, else the
\* metric's default_agg when declared, else defaults.aggregation of the
\* catalog, else avg.
ChainAgg ==
    LET defaults == Get(c_metrics, "defaults", EmptyDict) IN
    IF Supplied(c_spec, "aggregation") THEN c_spec["aggregation"]
    ELSE IF Supplied(TheMetric, "default_agg") THEN TheMetric["default_agg"]
    ELSE IF "aggregation" \in DOMAIN defaults THEN defaults["aggregation"]
    ELSE "avg"

AggFn(q) == q.select[2].expr.fn

UpperName ==
    [avg |-> "AVG", sum |-> "SUM", min |-> "MIN", max |-> "MAX", count |-> "COUNT",
     median |-> "MEDIAN"]

C4_AggChain ==
    Compiled =>
        /\ AggFn(c_out.sql) = UpperName[ChainAgg]
        /\ (DOMAIN c_spec = {"metric"} /\ Supplied(TheMetric, "default_agg")
                => AggFn(c_out.sql) = UpperName[TheMetric["default_agg"]])

C4_Witness ==
    /\ Compiled
    /\ DOMAIN c_spec = {"metric"}
    /\ c_spec["metric"] = "step_count"
    /\ Get(c_metrics, "defaults", EmptyDict) = [aggregation |-> "max", cast |-> "integer", time_grain |-> "month"]
    /\ AggFn(c_out.sql) = "SUM"

\* C5: a supplied grain outside {day, week, month} does not fail: the query
\* groups by the catalog's start_timestamp expression under the alias
\* start_timestamp; day, week and month use the catalog's date, week and
\* month expressions and aliases; an omitted grain is the global default
\* (defaults.time_grain of the catalog, day when the catalog sets none).
ChainGrain ==
    LET defaults == Get(c_metrics, "defaults", EmptyDict) IN
    IF Supplied(c_spec, "time_grain") THEN c_spec["time_grain"]
    ELSE IF "time_grain" \in DOMAIN defaults THEN defaults["time_grain"]
    ELSE "day"

GrainField(g) ==
    CASE g = "day" -> "date"
      [] g = "week" -> "week"
      [] g = "month" -> "month"
      [] OTHER -> "start_timestamp"

GrainFailure == cpc = "done" /\ KnownMetric /\ HasTimeDims(c_dims) /\ c_out.exc # "None"

C5_GrainFallback ==
    /\ GrainFailure => ChainAgg = NoneVal
    /\ Compiled =>
        LET q == c_out.sql
            f == GrainField(ChainGrain)
        IN /\ q.select[1].expr.text = Fields[f]["expr"]
           /\ q.select[1].alias = f
           /\ q.group_by = <<Fields[f]["expr"]>>

C5_Witness ==
    /\ Compiled
    /\ Supplied(c_spec, "time_grain") /\ c_spec["time_grain"] = "hour"
    /\ c_dims = AltDimsDoc
    /\ c_out.sql.group_by = <<"startDate">>
    /\ c_out.sql.select[1].alias = "start_timestamp"

\* C6: for a known metric the query has exactly one GROUP BY expression, the
\* catalog expression of the resolved grain, which is also the expression
\* selected and ordered by; its LIMIT is the caller's limit, and when the
\* caller gave none, 100 through the direct entry point (and the MCP shim)
\* and 30 through the chat front-end.
CallerLimit ==
    IF "limit" \in DOMAIN c_args THEN c_args["limit"]
    ELSE IF entry = "chat" THEN 30 ELSE 100

C6_GroupAndLimit ==
    Compiled =>
        LET q == c_out.sql
            e == Fields[GrainField(ChainGrain)]["expr"]
        IN /\ Len(q.group_by) = 1
           /\ q.group_by[1] = e
           /\ q.select[1].expr.text = e
           /\ q.order_by = <<e>>
           /\ q.limit = CallerLimit

C6_Witness ==
    /\ Compiled
    /\ entry = "chat"
    /\ "limit" \notin DOMAIN c_args
    /\ c_out.sql.limit = 30
    /\ c_out.sql.group_by = <<"date_trunc('week', CAST(startDate AS TIMESTAMP))">>

\* C7: the WHERE clause starts with the exact-match predicate on the
\* metric's hk_type, and holds a unit predicate exactly when the metric
\* declares a unit that is neither empty nor null (None, or the text null
\* in any letter case); the clauses are the joined sequence, type first.
NullText == {"null", "Null", "NULL"}

DeclaresUnit ==
    /\ "unit" \in DOMAIN TheMetric
    /\ TheMetric["unit"] # NoneVal
    /\ TheMetric["unit"] # ""
    /\ TheMetric["unit"] \notin NullText

UnitPreds(q) == {i \in 1..Len(q.where) : q.where[i].col = "unit"}
TypePreds(q) == {i \in 1..Len(q.where) : q.where[i].col = "type"}

C7_TypeAndUnit ==
    Compiled =>
        LET q == c_out.sql IN
        /\ TypePreds(q) = {1}
        /\ q.where[1] = [col |-> "type", op |-> "=", val |-> TheMetric["hk_type"]]
        /\ IF DeclaresUnit
           THEN /\ UnitPreds(q) = {2}
                /\ q.where[2] = [col |-> "unit", op |-> "=", val |-> TheMetric["unit"]]
           ELSE UnitPreds(q) = {}
        /\ \A i \in 1..Len(q.where) : q.where[i].col \in {"type", "unit", "startDate"}

C7_Witness ==
    /\ Compiled
    /\ c_spec["metric"] = "heart_rate"
    /\ Len(c_out.sql.where) = 3
    /\ c_out.sql.where[2].val = "count/min"
    /\ c_out.sql.where[3].op = "BETWEEN"

\* C11: through the MCP shim and through the chat front-end a request
\* without an aggregation reaches the compiler with aggregation "avg", and
\* its query uses AVG whatever the metric's default_agg is; a query takes the
\* metric's default_agg only from an intent whose aggregation is missing or
\* empty, which a collaborator passes on only when it was given an empty one.
ViaCollaborator == cpc = "done" /\ entry \in {"shim", "chat"}

C11_CollaboratorsForceAvg ==
    /\ (ViaCollaborator /\ "aggregation" \notin DOMAIN c_args) =>
            /\ "aggregation" \in DOMAIN c_spec
            /\ c_spec["aggregation"] = "avg"
            /\ Compiled => AggFn(c_out.sql) = "AVG"
    /\ (ViaCollaborator /\ ~Supplied(c_spec, "aggregation")) =>
            /\ "aggregation" \in DOMAIN c_args
            /\ ~Supplied(c_args, "aggregation")
    /\ (Compiled /\ Supplied(c_spec, "aggregation") /\ Supplied(TheMetric, "default_agg")
            /\ c_spec["aggregation"] # TheMetric["default_agg"]) =>
            AggFn(c_out.sql) # UpperName[TheMetric["default_agg"]]

C11_Witness ==
    /\ Compiled
    /\ entry = "shim"
    /\ "aggregation" \notin DOMAIN c_args
    /\ c_spec["metric"] = "step_count"
    /\ TheMetric["default_agg"] = "sum"
    /\ c_metrics = OtherDefaultsDoc
    /\ AggFn(c_out.sql) = "AVG"

-----------------------------------------------------------------------------
(* Properties of run_spec *)

Finished(c) == pc[c] \in {"returned", "raised"}
EngineStages == {"create_view", "execute", "close", "return", "returned"}
Entered(c) == pc[c] # "idle"

MetricsOnDisk == Get(metricsFile, "metrics", EmptyDict)
UnknownMetric(c) == Entered(c) /\ intent[c]["metric"] \notin DOMAIN MetricsOnDisk

NoEngineUse(c) ==
    /\ engineOps[c] = 0
    /\ con[c] = 0
    /\ pc[c] \notin EngineStages
    /\ \A k \in 1..Len(conns) : c \notin conns[k].users

\* C1: a call whose metric is not in the metric catalog ends with the
\* unknown-metric error of build_health_query_sql, and makes no DuckDB
\* call: it opens no connection, creates no view and runs no query.
C1_UnknownMetricNoEngine ==
    \A c \in Calls :
        UnknownMetric(c) =>
            /\ NoEngineUse(c)
            /\ pc[c] # "connect"
            /\ Finished(c) => outcome[c] = RaisedBy("ValueError: Unknown metric")

C1_Witness ==
    \E c \in Calls :
        /\ metricsFile = FullMetricsDoc
        /\ pc[c] = "raised"
        /\ intent[c]["metric"] = "nonexistent_metric"
        /\ outcome[c].exc = "ValueError: Unknown metric"
        /\ engineOps[c] = 0

\* C2: when a call has returned or raised, the connection it opened is closed.
C2_ReleasedOnEveryExit ==
    \A c \in Calls :
        (Finished(c) /\ con[c] # 0) => ~conns[con[c]].open

\* C8 as stated: with "metrics" or "dimensions" missing from its document the
\* call fails while loading, with an error other than the unknown-metric
\* error, and never reaches compilation.
MissingTopLevelKey ==
    "metrics" \notin DOMAIN metricsFile \/ "dimensions" \notin DOMAIN dimsFile

C8_SchemaLoadError ==
    \A c \in Calls :
        (MissingTopLevelKey /\ Entered(c)) =>
            /\ pc[c] \in {"load_metrics", "load_dimensions", "raised"}
            /\ outcome[c].exc # "ValueError: Unknown metric"

\* C8 amended: with a top-level key missing both documents still load, and
\* the call fails during compilation, before any DuckDB call: with the
\* unknown-metric error when the metric is not in the (possibly absent, then
\* empty) metrics mapping, and otherwise with the KeyError of
\* get_time_group_expr on "dimensions".
C8_MissingKeyFailsInCompile ==
    \A c \in Calls :
        (MissingTopLevelKey /\ Entered(c)) =>
            /\ NoEngineUse(c)
            /\ pc[c] \in {"load_metrics", "load_dimensions", "build", "raised"}
            /\ pc[c] = "build" =>
                    metrics_cfg[c] = metricsFile /\ dimensions_cfg[c] = dimsFile
            /\ Finished(c) =>
                    outcome[c] = IF UnknownMetric(c)
                                 THEN RaisedBy("ValueError: Unknown metric")
                                 ELSE RaisedBy("KeyError: dimensions")

C8_Witness ==
    \E c \in Calls :
        /\ metricsFile = NoMetricsKeyDoc
        /\ dimsFile = NoDimensionsKeyDoc
        /\ pc[c] = "raised"
        /\ intent[c]["metric"] = "heart_rate"
        /\ outcome[c].exc = "ValueError: Unknown metric"

\* what run_spec gives for an intent when it is the only call
RunAlone(i) ==
    LET b == build_health_query_sql(i, metricsFile, dimsFile) IN
    IF b.exc # "None" THEN RaisedBy(b.exc)
    ELSE IF ~parquetOk THEN RaisedBy("IOException")
    ELSE LET r == RunQuery(b.sql, {"healthkit_records"}, RecordStore) IN
         IF r.err # "None" THEN RaisedBy(r.err)
         ELSE [exc |-> "None", sql |-> b.sql, rows |-> json_safe_rows(r.table)]

\* C9: under every interleaving each call works on the catalogs it loaded
\* itself and on a connection no other call uses, and what it returns or
\* raises is what its intent gives when run alone.
C9_CallsIndependent ==
    /\ \A k \in 1..Len(conns) : Cardinality(conns[k].users) <= 1
    /\ \A c \in Calls :
        /\ con[c] # 0 =>
              /\ conns[con[c]].users \subseteq {c}
              /\ \A d \in Calls \ {c} : con[d] # con[c]
        /\ pc[c] \notin {"idle", "load_metrics"} => metrics_cfg[c] = metricsFile
        /\ pc[c] \notin {"idle", "load_metrics", "load_dimensions"} =>
              dimensions_cfg[c] = dimsFile
        /\ Finished(c) => outcome[c] = RunAlone(intent[c])

C9_Witness ==
    \E c, d \in Calls :
        /\ c # d
        /\ pc[c] = "returned" /\ outcome[c].rows # <<>>
        /\ pc[d] = "execute" /\ conns[con[d]].open
        /\ con[d] < con[c]

-----------------------------------------------------------------------------
(* Properties of records_to_parquet *)

RECURSIVE Concat(_)
Concat(tables) == IF tables = <<>> THEN <<>> ELSE Head(tables) \o Concat(Tail(tables))

\* the positions of the <Record> elements among the first n elements, in order
RECURSIVE RecordsIn(_)
RecordsIn(n) ==
    IF n = 0 THEN <<>>
    ELSE IF xml[n].tag = "Record" THEN Append(RecordsIn(n - 1), n) ELSE RecordsIn(n - 1)

\* row w is record number i of the input, laid out on the frozen columns
RowIsRecord(w, i) ==
    /\ w.idx = i
    /\ Len(w.cells) = Len(all_columns[1])
    /\ \A j \in 1..Len(w.cells) :
          LET col == all_columns[1][j] IN
          w.cells[j] = IF col \in DOMAIN xml[i].attrib THEN xml[i].attrib[col] ELSE NoneVal

\* C10: the buffer never holds more than chunk_size rows; on completion the
\* batches written, concatenated, are the <Record> elements of the input,
\* each once and in input order; every batch but the last holds chunk_size
\* rows and the last is not empty; the writer is closed exactly when a batch
\* was written.
C10_BatchesAreTheRecords ==
    /\ Len(rows) <= chunk_size
    /\ peak <= chunk_size
    /\ ipc = "done" =>
        LET written == Concat(batches)
            seen == RecordsIn(Len(xml))
        IN /\ Len(written) = Len(seen)
           /\ \A n \in 1..Len(written) : RowIsRecord(written[n], seen[n])
           /\ \A b \in 1..Len(batches) :
                 /\ b < Len(batches) => Len(batches[b]) = chunk_size
                 /\ Len(batches[b]) >= 1
                 /\ Len(batches[b]) <= chunk_size
           /\ (writer = "closed") <=> (Len(batches) >= 1)
           /\ writer \in {"closed", "None"}

C10_Witness ==
    /\ ipc = "done"
    /\ chunk_size = 2
    /\ Len(batches) = 2
    /\ Len(batches[2]) = 1
    /\ \E n \in 1..Len(xml) : xml[n].tag # "Record"
    /\ batches[2][1].cells # batches[1][1].cells
    /\ writer = "closed"

====
